---- MODULE Spec2Model ----
(***************************************************************************)
(* Model of app/api/github-secrets/route.ts: the env-file parser           *)
(* (parseEnvContent), public-key discovery (getPublicKey), sealed-box      *)
(* encryption (encryptValue), the secret write (setSecret) and the POST    *)
(* handler that composes them.                                             *)
(*                                                                         *)
(* Strings that the code takes apart (the env text, the repo identifier,   *)
(* keys, values) are sequences of one-character strings, so that split,    *)
(* trim, startsWith, endsWith, match and replace are computed as the code  *)
(* computes them.  Opaque strings (the credential, status texts, response  *)
(* bodies, error messages) are TLA+ strings.                               *)
(***************************************************************************)
EXTENDS Integers, Sequences, FiniteSets, TLC

VARIABLES
    repo,            \* formData.get('repo')
    pat,             \* formData.get('pat')
    envText,         \* the env text (file contents or string field)
    sodiumReady,     \* whether the process-wide _sodium.ready promise resolves
    pc,              \* position of the POST handler
    net,             \* outbound fetch calls so far, each with what came back
    keyInfo,         \* const keyInfo of POST, << >> before discovery, << info >> after
    secrets,         \* const secrets of POST: the parsed Record, in insertion order
    entries,         \* Object.entries(secrets), the list the loop walks
    idx,             \* 1-based position of the loop in entries
    encryptedValue,  \* const encryptedValue of the setSecret call in progress: << >> or << box >>
    encCalls,        \* number of crypto_box_seal calls made by the process
    setSecretCalls,  \* keys setSecret was invoked for, in call order
    results,         \* const results of POST
    failedSecrets,   \* const failedSecrets of POST
    successSecrets,  \* const successSecrets of POST
    response,        \* the NextResponse POST returned: << >> while running, << r >> after
    parser           \* parseEnvContent run line by line: its locals and what it has read

vars == << repo, pat, envText, sodiumReady, pc, net, keyInfo, secrets, entries,
           idx, encryptedValue, encCalls, setSecretCalls, results,
           failedSecrets, successSecrets, response, parser >>

\* Bounds of the model.
MaxLines == 3        \* physical lines in an env text of a run
MaxParseLines == 3   \* physical lines in an env text given to the parser alone

Undefined == "undefined"      \* the JavaScript value undefined

(***************************************************************************)
(* String primitives                                                       *)
(***************************************************************************)
Whitespace == {" ", "\t", "\r"}
KeyChars == {"A", "B", "C", "2", "1", "0", "_"}
Digits == {"0", "1", "2"}
QuoteChars == {"\"", "'"}

Last(s) == s[Len(s)]

\* String.prototype.startsWith / endsWith with a literal argument.
StartsWith(s, p) == Len(s) >= Len(p) /\ SubSeq(s, 1, Len(p)) = p
EndsWith(s, p) == Len(s) >= Len(p) /\ SubSeq(s, Len(s) - Len(p) + 1, Len(s)) = p

\* String.prototype.trim.
RECURSIVE TrimLeft(_)
TrimLeft(s) ==
    IF s # << >> /\ Head(s) \in Whitespace THEN TrimLeft(Tail(s)) ELSE s

RECURSIVE TrimRight(_)
TrimRight(s) ==
    IF s # << >> /\ Last(s) \in Whitespace
    THEN TrimRight(SubSeq(s, 1, Len(s) - 1))
    ELSE s

Trim(s) == TrimRight(TrimLeft(s))

\* String.prototype.split with a one-character separator: always at least one
\* piece; "" splits into [""].
RECURSIVE SplitFrom(_, _, _)
SplitFrom(s, sep, cur) ==
    IF s = << >> THEN << cur >>
    ELSE IF Head(s) = sep THEN << cur >> \o SplitFrom(Tail(s), sep, << >>)
    ELSE SplitFrom(Tail(s), sep, Append(cur, Head(s)))

Split(s, sep) == SplitFrom(s, sep, << >>)

\* Join lines with "\n" (how an env text is written down).
RECURSIVE JoinLines(_)
JoinLines(ls) ==
    IF ls = << >> THEN << >>
    ELSE IF Len(ls) = 1 THEN ls[1]
    ELSE ls[1] \o << "\n" >> \o JoinLines(Tail(ls))

(***************************************************************************)
(* parseEnvContent                                                         *)
(***************************************************************************)
\* Length of the longest prefix of s made of key characters.
RECURSIVE KeyPrefixLen(_)
KeyPrefixLen(s) ==
    IF s # << >> /\ Head(s) \in KeyChars THEN 1 + KeyPrefixLen(Tail(s)) ELSE 0

\* line.match(/^([A-Za-z0-9_]+)=(.*)/): the greedy key group is the longest
\* key-character prefix, which must be non-empty and followed by "=".
LineMatches(line) ==
    LET n == KeyPrefixLen(line)
    IN  n >= 1 /\ Len(line) > n /\ line[n + 1] = "="

MatchKey(line) == SubSeq(line, 1, KeyPrefixLen(line))
MatchValue(line) == SubSeq(line, KeyPrefixLen(line) + 2, Len(line))

\* value.startsWith('"') && !value.endsWith('"') && !value.endsWith('\\"')
StartsMultiline(value) ==
    /\ StartsWith(value, << "\"" >>)
    /\ ~ EndsWith(value, << "\"" >>)
    /\ ~ EndsWith(value, << "\\", "\"" >>)

\* Mutant of StripQuotes: only a matching pair of quotes is stripped.
StripQuotesMatching(value) ==
    IF Len(value) >= 2 /\ Head(value) \in QuoteChars /\ Last(value) = Head(value)
    THEN SubSeq(value, 2, Len(value) - 1)
    ELSE value

\* value.replace(/^["'](.*)["']$/, '$1')
StripQuotes(value) ==
    IF Len(value) >= 2 /\ Head(value) \in QuoteChars /\ Last(value) \in QuoteChars
    THEN SubSeq(value, 2, Len(value) - 1)
    ELSE value

\* line.endsWith('"') && !line.endsWith('\\"')
EndsMultiline(line) ==
    EndsWith(line, << "\"" >>) /\ ~ EndsWith(line, << "\\", "\"" >>)

\* result[key] = value on a Record kept as a sequence of <<key, value>> in
\* insertion order: an existing key keeps its place and takes the new value.
HasKey(rec, k) == \E i \in 1..Len(rec) : rec[i][1] = k

\* Mutant of SetProperty: a key that is already there keeps its value.
SetPropertyFirstWins(rec, k, v) ==
    IF HasKey(rec, k) THEN rec ELSE Append(rec, << k, v >>)

SetProperty(rec, k, v) ==
    IF HasKey(rec, k)
    THEN [i \in 1..Len(rec) |-> IF rec[i][1] = k THEN << k, v >> ELSE rec[i]]
    ELSE Append(rec, << k, v >>)

\* The parser's locals between two iterations of the for loop.
ParserInit ==
    [result |-> << >>, currentKey |-> << >>, inValue |-> FALSE, value |-> << >>]

\* Mutant of ParseLine: the KEY=VALUE pattern is tried before the state is
\* looked at, so a KEY=VALUE line starts a new key inside a multi-line value.
ParseLineRestarts(st, raw) ==
    LET line == Trim(raw)
    IN  IF line = << >> \/ StartsWith(line, << "#" >>) THEN st
        ELSE IF ~ st.inValue \/ LineMatches(line) THEN
            IF LineMatches(line) THEN
                LET k == MatchKey(line)
                    v == MatchValue(line)
                IN  IF StartsMultiline(v)
                    THEN [st EXCEPT !.currentKey = k, !.inValue = TRUE,
                                    !.value = Tail(v)]
                    ELSE [st EXCEPT !.result = SetProperty(st.result, k, StripQuotes(v)),
                                    !.inValue = FALSE,
                                    !.currentKey = << >>, !.value = << >>]
            ELSE st
        ELSE IF EndsMultiline(line)
            THEN [st EXCEPT
                    !.result = SetProperty(st.result, st.currentKey,
                                  st.value \o << "\n" >> \o SubSeq(line, 1, Len(line) - 1)),
                    !.inValue = FALSE, !.currentKey = << >>, !.value = << >>]
            ELSE [st EXCEPT !.value = st.value \o << "\n" >> \o line]

\* One iteration of the for loop on the raw line lines[i].
ParseLine(st, raw) ==
    LET line == Trim(raw)
    IN  IF line = << >> \/ StartsWith(line, << "#" >>) THEN st
        ELSE IF ~ st.inValue THEN
            IF LineMatches(line) THEN
                LET k == MatchKey(line)
                    v == MatchValue(line)
                IN  IF StartsMultiline(v)
                    THEN [st EXCEPT !.currentKey = k, !.inValue = TRUE,
                                    !.value = Tail(v)]
                    ELSE [st EXCEPT !.result = SetProperty(st.result, k, StripQuotes(v)),
                                    !.currentKey = << >>, !.value = << >>]
            ELSE st
        ELSE IF EndsMultiline(line)
            THEN [st EXCEPT
                    !.result = SetProperty(st.result, st.currentKey,
                                  st.value \o << "\n" >> \o SubSeq(line, 1, Len(line) - 1)),
                    !.inValue = FALSE, !.currentKey = << >>, !.value = << >>]
            ELSE [st EXCEPT !.value = st.value \o << "\n" >> \o line]

RECURSIVE ParseLines(_, _)
ParseLines(st, lines) ==
    IF lines = << >> THEN st
    ELSE ParseLines(ParseLine(st, Head(lines)), Tail(lines))

\* Mutant of ParseFinish: an unterminated value is dropped.
ParseFinishDrops(st) == st.result

\* After the loop: an unterminated multi-line value is committed as it stands.
ParseFinish(st) ==
    IF st.inValue /\ st.currentKey # << >>
    THEN SetProperty(st.result, st.currentKey, st.value)
    ELSE st.result

parseEnvContent(envContent) ==
    ParseFinish(ParseLines(ParserInit, Split(envContent, "\n")))


\* What one iteration of the for loop writes into result, if anything:
\* result[currentKey] = value of the single-line branch or of the closing line.
LineCommit(st, raw) ==
    LET line == Trim(raw)
    IN  IF line = << >> \/ StartsWith(line, << "#" >>) THEN << >>
        ELSE IF ~ st.inValue THEN
            IF LineMatches(line) /\ ~ StartsMultiline(MatchValue(line))
            THEN << [key |-> MatchKey(line), value |-> StripQuotes(MatchValue(line)),
                     kind |-> "single"] >>
            ELSE << >>
        ELSE IF EndsMultiline(line)
            THEN << [key |-> st.currentKey,
                     value |-> st.value \o << "\n" >> \o SubSeq(line, 1, Len(line) - 1),
                     kind |-> "multi"] >>
            ELSE << >>

\* What the statement after the loop writes into result, if anything.
FinishCommit(st) ==
    IF st.inValue /\ st.currentKey # << >>
    THEN << [key |-> st.currentKey, value |-> st.value, kind |-> "end"] >>
    ELSE << >>

\* parseEnvContent at its first loop iteration: lines, the loop index (from 1),
\* the locals, and a record of what has happened so far (the locals before
\* the last step, the line it read, the writes into result in order, the
\* line that opened the value being accumulated).
ParserStart(text) ==
    [lines |-> Split(text, "\n"), i |-> 1, st |-> ParserInit,
     last |-> "none", prev |-> ParserInit, raw |-> << >>,
     commits |-> << >>, openedAt |-> 0, done |-> FALSE, result |-> << >>]

\* The parser when no call is in progress.
ParserIdle ==
    [lines |-> << >>, i |-> 1, st |-> ParserInit,
     last |-> "none", prev |-> ParserInit, raw |-> << >>,
     commits |-> << >>, openedAt |-> 0, done |-> TRUE, result |-> << >>]

(***************************************************************************)
(* Object.entries                                                          *)
(***************************************************************************)
DigitValue(c) == IF c = "0" THEN 0 ELSE IF c = "1" THEN 1 ELSE 2

RECURSIVE NumericValue(_)
NumericValue(k) ==
    IF k = << >> THEN 0
    ELSE 10 * NumericValue(SubSeq(k, 1, Len(k) - 1)) + DigitValue(Last(k))

\* A property name that is a canonical array index ("0", "7", "12"; not "01").
IsArrayIndex(k) ==
    /\ k # << >>
    /\ \A i \in 1..Len(k) : k[i] \in Digits
    /\ (Len(k) = 1 \/ k[1] # "0")

\* Property enumeration order of an ordinary object: array-index names in
\* ascending numeric order, then the other names in insertion order.
RECURSIVE AscendingIndexEntries(_)
AscendingIndexEntries(rec) ==
    IF rec = << >> THEN << >>
    ELSE LET m == CHOOSE i \in 1..Len(rec) :
                     \A j \in 1..Len(rec) :
                         NumericValue(rec[i][1]) <= NumericValue(rec[j][1])
             rest == [j \in 1..(Len(rec) - 1) |-> IF j < m THEN rec[j] ELSE rec[j + 1]]
         IN  << rec[m] >> \o AscendingIndexEntries(rest)

\* Mutant of ObjectEntries: plain insertion order.
ObjectEntriesInsertionOrder(rec) == rec

ObjectEntries(rec) ==
    AscendingIndexEntries(SelectSeq(rec, LAMBDA e : IsArrayIndex(e[1])))
        \o SelectSeq(rec, LAMBDA e : ~ IsArrayIndex(e[1]))


(***************************************************************************)
(* The environment: what the run is given and what the remote answers      *)
(***************************************************************************)
\* Lines an env text of a run is made of.
RunLines ==
    { << "A", "=", "1" >>,                 \* A=1
      << "B", "=", "\"", "x" >>,           \* B="x   (opens a multi-line value)
      << "2", "=", "z", "\"" >>,           \* 2=z"   (a key made of digits; the
                                           \*         line ends with a quote)
      << "#", " ", "c" >> }                \* # c    (a comment)

RECURSIVE LineSeqs(_)
LineSeqs(n) ==
    IF n = 0 THEN { << >> }
    ELSE LET shorter == LineSeqs(n - 1)
         IN  shorter \cup { Append(ls, l) : ls \in shorter, l \in RunLines }

\* The env texts of the model; the text of no lines is the empty string,
\* which parseFormData takes for a missing parameter.
EnvTexts == { JoinLines(ls) : ls \in LineSeqs(MaxLines) }

Repos == { << >>, << "o", "/", "r" >>, << "o" >> }
Pats == { "", "tok" }

ProbeStatuses == {200, 403, 404, 500}

\* Answers to a public-key GET: a status and a body that parses as JSON or
\* does not; only a 200 answer with a JSON body carries key and key_id.
KeyStatuses == {200, 403, 404, 500}
KeyAnswers(scope) ==
    { [status |-> st, json |-> j,
       key |-> IF st = 200 /\ j
               THEN (IF scope = "repos" THEN "pkRepo" ELSE "pkOrg") ELSE Undefined,
       key_id |-> IF st = 200 /\ j
                  THEN (IF scope = "repos" THEN "kidRepo" ELSE "kidOrg") ELSE Undefined]
      : st \in KeyStatuses, j \in BOOLEAN }

\* Answers to a secret PUT: status, statusText, body, and whether the body
\* can be read.
PutStatuses == {200, 201, 204, 403}
StatusText(st) ==
    CASE st = 200 -> "OK" [] st = 201 -> "Created" [] st = 204 -> "No Content"
      [] OTHER -> "Forbidden"
BodyText(st) ==
    CASE st = 200 -> "{}" [] st = 201 -> "" [] st = 204 -> "" [] OTHER -> "denied"
PutAnswers ==
    { [status |-> st, statusText |-> StatusText(st), body |-> BodyText(st),
       readable |-> rd] : st \in PutStatuses, rd \in BOOLEAN }

\* Public keys crypto_box_seal accepts (base64 of 32 bytes).
ValidPublicKeys == { "pkRepo", "pkOrg" }

\* Mutant of MissingParameters: a text without secrets counts as missing.
MissingParametersOrNoSecrets(r, p, e) ==
    r = << >> \/ p = "" \/ e = << >> \/ Trim(e) = << >> \/ Trim(e)[1] = "#"

(***************************************************************************)
(* parseFormData                                                           *)
(***************************************************************************)
\* !repo || !pat || !envText : null and the empty string are both falsy.
MissingParameters(r, p, e) == r = << >> \/ p = "" \/ e = << >>

(***************************************************************************)
(* getPublicKey                                                            *)
(***************************************************************************)
\* const [org, repoName] = repo.split('/')
OrgOf(r) == Split(r, "/")[1]

\* response.status === 404 after the resource-scoped lookup
RepoKeyNotFound(status) == status = 404

\* Mutant of OrgKeyNotFound: the second 404 check tests for the wrong status.
OrgKeyNotFoundOn403(status) == status = 403

\* response.status === 404 after the organization-scoped lookup
OrgKeyNotFound(status) == status = 404

\* The object getPublicKey returns from the answer `data` of the last lookup.
KeyInfoOf(data, isOrg) ==
    [publicKey |-> data.key, keyId |-> data.key_id, isOrg |-> isOrg]

(***************************************************************************)
(* encryptValue                                                            *)
(***************************************************************************)
\* await _sodium.ready rejects, or from_base64 / crypto_box_seal reject the key
\* (undefined, or not a 32-byte key).
EncryptThrows(publicKey) == ~ sodiumReady \/ publicKey \notin ValidPublicKeys

\* Mutant of encryptValue: the value is encoded but not sealed for the key.
encryptValueUnsealed(value, publicKey, eph) ==
    [sealedFor |-> "nobody", plaintext |-> value, eph |-> eph]

\* crypto_box_seal(value, publicKey): a box only the holder of the private key
\* of publicKey opens, made with a fresh ephemeral key pair.
encryptValue(value, publicKey, eph) ==
    [sealedFor |-> publicKey, plaintext |-> value, eph |-> eph]

(***************************************************************************)
(* setSecret                                                               *)
(***************************************************************************)
\* Mutant of SecretUrl: the organization branch is missing.
SecretUrlRepoOnly(ki, r, key) ==
    [scope |-> "repos", owner |-> r, res |-> "secret", key |-> key]

SecretUrl(ki, r, key) ==
    IF ki.isOrg
    THEN [scope |-> "orgs", owner |-> OrgOf(r), res |-> "secret", key |-> key]
    ELSE [scope |-> "repos", owner |-> r, res |-> "secret", key |-> key]

RequestBody(enc, ki) ==
    IF ki.isOrg
    THEN [encrypted_value |-> enc, key_id |-> ki.keyId, visibility |-> "all"]
    ELSE [encrypted_value |-> enc, key_id |-> ki.keyId]

\* Mutant of Accepted: any 2xx status counts (response.ok).
AcceptedAny2xx(status) == status >= 200 /\ status < 300

\* response.status === 201 || response.status === 204
Accepted(status) == status = 201 \/ status = 204

\* try { responseBody = await response.text() } catch { ... }
ResponseBody(ans) ==
    IF ans.readable THEN ans.body ELSE "Failed to read response body"

\* The object setSecret returns.
SetSecretResult(ans) ==
    [status |-> ans.status, statusText |-> ans.statusText,
     success |-> Accepted(ans.status), response |-> ResponseBody(ans)]

(***************************************************************************)
(* POST                                                                    *)
(***************************************************************************)
\* Mutant of ProbeNotFound: every failed probe ends the run (!response.ok).
ProbeNotFoundAnyError(status) == status >= 400

\* Mutant of ProbeNotFound: the probe looks for the wrong status.
ProbeNotFoundOn403(status) == status = 403

\* repoCheckResponse.status === 404
ProbeNotFound(status) == status = 404

AccessErrorResponse ==
    [status |-> 404, success |-> FALSE, variables |-> << "Repository access error" >>]

\* The outer catch.
CaughtResponse(message) ==
    [status |-> 500, success |-> FALSE, variables |-> << message >>]

\* The entry pushed to results after setSecret returned.
ResultEntry(key, result) ==
    [key |-> key, success |-> result.success, status |-> result.status,
     statusText |-> result.statusText, response |-> result.response]

\* Mutant of FailedAfter: the push to failedSecrets lost its condition.
FailedAfterAlways(failed, key, result) == Append(failed, key)

\* if (!result.success) failedSecrets.push(key)
FailedAfter(failed, key, result) ==
    IF ~ result.success THEN Append(failed, key) ELSE failed

\* else successSecrets.push(key)
SucceededAfter(succeeded, key, result) ==
    IF ~ result.success THEN succeeded ELSE Append(succeeded, key)

\* Mutant of ErrorEntry: the catch fabricates a status and puts the message in
\* the body field.
ErrorEntryWithStatus(key, message) ==
    [key |-> key, success |-> FALSE, status |-> 0, statusText |-> "",
     response |-> message]

\* The entry pushed to results by the per-key catch.
ErrorEntry(key, message) ==
    [key |-> key, success |-> FALSE, error |-> message]

\* Mutant of FinalResponse: a failed run lists every key it processed.
FinalResponseListsAll(failed, succeeded) ==
    IF Len(failed) = 0
    THEN [status |-> 200, success |-> TRUE, variables |-> succeeded]
    ELSE [status |-> 200, success |-> FALSE, variables |-> succeeded \o failed]

\* if (failedSecrets.length === 0) ... else ...
FinalResponse(failed, succeeded) ==
    IF Len(failed) = 0
    THEN [status |-> 200, success |-> TRUE, variables |-> succeeded]
    ELSE [status |-> 200, success |-> FALSE, variables |-> failed]

Init ==
    /\ repo \in Repos
    /\ pat \in Pats
    /\ envText \in EnvTexts
    /\ sodiumReady \in BOOLEAN
    /\ pc = "formData"
    /\ net = << >>
    /\ keyInfo = << >>
    /\ secrets = << >>
    /\ entries = << >>
    /\ idx = 0
    /\ encryptedValue = << >>
    /\ encCalls = 0
    /\ setSecretCalls = << >>
    /\ results = << >>
    /\ failedSecrets = << >>
    /\ successSecrets = << >>
    /\ response = << >>
    /\ parser = ParserIdle

Get(scope, owner, res) ==
    [method |-> "GET", url |-> [scope |-> scope, owner |-> owner, res |-> res, key |-> << >>],
     auth |-> pat]

\* A fetch that came back with an answer, and one that rejected.
Answered(req, ans) == [req |-> req, threw |-> FALSE, ans |-> ans]
Rejected(req) == [req |-> req, threw |-> TRUE]

\* The run ends in the outer catch.
Fail(message) ==
    /\ pc' = "done"
    /\ response' = << CaughtResponse(message) >>

\* const { repo, pat, envText } = await parseFormData(req)
ParseFormData ==
    /\ pc = "formData"
    /\ IF MissingParameters(repo, pat, envText)
       THEN Fail("Missing required parameters: repo, pat, or env")
       ELSE pc' = "probe" /\ UNCHANGED response
    /\ UNCHANGED << parser, repo, pat, envText, sodiumReady, net, keyInfo, secrets, entries,
                    idx, encryptedValue, encCalls, setSecretCalls, results,
                    failedSecrets, successSecrets >>

\* The access probe and the check of its status.
Probe ==
    /\ pc = "probe"
    /\ LET req == Get("repos", repo, "repo")
       IN  \/ /\ net' = Append(net, Rejected(req))
              /\ Fail("fetch failed")
           \/ \E st \in ProbeStatuses :
                /\ net' = Append(net, Answered(req, [status |-> st]))
                /\ IF ProbeNotFound(st)
                   THEN pc' = "done" /\ response' = << AccessErrorResponse >>
                   ELSE pc' = "repoKey" /\ UNCHANGED response
    /\ UNCHANGED << parser, repo, pat, envText, sodiumReady, keyInfo, secrets, entries,
                    idx, encryptedValue, encCalls, setSecretCalls, results,
                    failedSecrets, successSecrets >>

\* POST from the return of getPublicKey to the first await of the loop (or to
\* the return, when there is nothing to loop over).
EnterLoop(ki) ==
    LET parsed == parseEnvContent(envText)
        es == ObjectEntries(parsed)
    IN  /\ keyInfo' = << ki >>
        /\ secrets' = parsed
        /\ entries' = es
        /\ IF es = << >>
           THEN /\ pc' = "done"
                /\ response' = << FinalResponse(failedSecrets, successSecrets) >>
                /\ UNCHANGED << idx, setSecretCalls >>
           ELSE /\ pc' = "encrypt"
                /\ idx' = 1
                /\ setSecretCalls' = Append(setSecretCalls, es[1][1])
                /\ UNCHANGED response

\* getPublicKey: the resource-scoped lookup.
RepoKeyLookup ==
    /\ pc = "repoKey"
    /\ LET req == Get("repos", repo, "public-key")
       IN  \/ /\ net' = Append(net, Rejected(req))
              /\ Fail("fetch failed")
              /\ UNCHANGED << keyInfo, secrets, entries, idx, setSecretCalls >>
           \/ \E data \in KeyAnswers("repos") :
                /\ net' = Append(net, Answered(req, data))
                /\ IF ~ data.json
                   THEN /\ Fail("Unexpected token < in JSON at position 0")
                        /\ UNCHANGED << keyInfo, secrets, entries, idx, setSecretCalls >>
                   ELSE IF RepoKeyNotFound(data.status)
                   THEN /\ pc' = "orgKey"
                        /\ UNCHANGED << response, keyInfo, secrets, entries, idx,
                                        setSecretCalls >>
                   ELSE EnterLoop(KeyInfoOf(data, FALSE))
    /\ UNCHANGED << parser, repo, pat, envText, sodiumReady, encryptedValue, encCalls,
                    results, failedSecrets, successSecrets >>

\* getPublicKey: the organization-scoped lookup.
OrgKeyLookup ==
    /\ pc = "orgKey"
    /\ LET req == Get("orgs", OrgOf(repo), "public-key")
       IN  \/ /\ net' = Append(net, Rejected(req))
              /\ Fail("fetch failed")
              /\ UNCHANGED << keyInfo, secrets, entries, idx, setSecretCalls >>
           \/ \E data \in KeyAnswers("orgs") :
                /\ net' = Append(net, Answered(req, data))
                /\ IF ~ data.json
                   THEN /\ Fail("Unexpected token < in JSON at position 0")
                        /\ UNCHANGED << keyInfo, secrets, entries, idx, setSecretCalls >>
                   ELSE IF OrgKeyNotFound(data.status)
                   THEN /\ Fail("Neither repository nor organization public key found")
                        /\ UNCHANGED << keyInfo, secrets, entries, idx, setSecretCalls >>
                   ELSE EnterLoop(KeyInfoOf(data, TRUE))
    /\ UNCHANGED << parser, repo, pat, envText, sodiumReady, encryptedValue, encCalls,
                    results, failedSecrets, successSecrets >>

\* The end of one iteration of the for loop, with the lists as the iteration
\* left them: the next iteration calls setSecret, the end of the loop returns.
NextKey(failed, succeeded, res) ==
    /\ failedSecrets' = failed
    /\ successSecrets' = succeeded
    /\ results' = res
    /\ encryptedValue' = << >>
    /\ IF idx < Len(entries)
       THEN /\ pc' = "encrypt"
            /\ idx' = idx + 1
            /\ setSecretCalls' = Append(setSecretCalls, entries[idx + 1][1])
            /\ UNCHANGED response
       ELSE /\ pc' = "done"
            /\ response' = << FinalResponse(failed, succeeded) >>
            /\ UNCHANGED << idx, setSecretCalls >>

\* Mutant of CatchKey: the catch records the key and leaves the loop.
CatchKeyAborts(key, message) ==
    /\ failedSecrets' = Append(failedSecrets, key)
    /\ successSecrets' = successSecrets
    /\ results' = Append(results, ErrorEntry(key, message))
    /\ encryptedValue' = << >>
    /\ pc' = "done"
    /\ response' = << FinalResponse(Append(failedSecrets, key), successSecrets) >>
    /\ UNCHANGED << idx, setSecretCalls >>

\* The per-key catch.
CatchKey(key, message) ==
    NextKey(Append(failedSecrets, key), successSecrets,
            Append(results, ErrorEntry(key, message)))

\* setSecret up to its fetch: await encryptValue(value, keyInfo.publicKey).
Encrypt ==
    /\ pc = "encrypt"
    /\ LET key == entries[idx][1]
           value == entries[idx][2]
           ki == keyInfo[1]
       IN  IF EncryptThrows(ki.publicKey)
           THEN /\ CatchKey(key, "encryption failed")
                /\ UNCHANGED encCalls
           ELSE /\ encryptedValue' = << encryptValue(value, ki.publicKey, encCalls + 1) >>
                /\ encCalls' = encCalls + 1
                /\ pc' = "put"
                /\ UNCHANGED << idx, setSecretCalls, results, failedSecrets,
                                successSecrets, response >>
    /\ UNCHANGED << parser, repo, pat, envText, sodiumReady, net, keyInfo, secrets, entries >>

\* setSecret from its fetch on, and the rest of the loop iteration.
Put ==
    /\ pc = "put"
    /\ LET key == entries[idx][1]
           ki == keyInfo[1]
           req == [method |-> "PUT", url |-> SecretUrl(ki, repo, key), auth |-> pat,
                   body |-> RequestBody(encryptedValue[1], ki)]
       IN  \/ /\ net' = Append(net, Rejected(req))
              /\ CatchKey(key, "fetch failed")
           \/ \E ans \in PutAnswers :
                LET result == SetSecretResult(ans)
                IN  /\ net' = Append(net, Answered(req, ans))
                    /\ NextKey(FailedAfter(failedSecrets, key, result),
                               SucceededAfter(successSecrets, key, result),
                               Append(results, ResultEntry(key, result)))
    /\ UNCHANGED << parser, repo, pat, envText, sodiumReady, keyInfo, secrets, entries,
                    encCalls >>

Next ==
    \/ ParseFormData
    \/ Probe
    \/ RepoKeyLookup
    \/ OrgKeyLookup
    \/ Encrypt
    \/ Put

Spec == Init /\ [][Next]_vars

(***************************************************************************)
(* parseEnvContent alone, one loop iteration at a time                     *)
(***************************************************************************)
\* Lines an env text given to the parser is made of.
ParserLines ==
    { << "A", "=", "1" >>,                       \* A=1
      << "B", "=", "\"", "x" >>,                 \* B="x    opens a multi-line value
      << "A", "=", "y", "\"" >>,                 \* A=y"    KEY=VALUE ending with a quote
      << >>,                                     \*         a blank line
      << "#", " ", "c" >>,                       \* # c     a comment
      << " ", "w", " " >>,                       \*  w      text with spaces around it
      << "A", "=", "\"", "v", "'" >>,            \* A="v'   mismatched quotes
      << "B", "=", "'", "v", "\"" >>,            \* B='v"   mismatched quotes
      << "A", "=", "\"", "v", "\\", "\"" >>,     \* A="v\"  ends with an escaped quote
      << "B", "=", "\"", "q", "\"" >>,           \* B="q"   quoted on one line
      << "e", "\\", "\"" >> }                    \* e\"     text ending with an escaped quote

RECURSIVE ParserLineSeqs(_)
ParserLineSeqs(n) ==
    IF n = 0 THEN { << >> }
    ELSE LET shorter == ParserLineSeqs(n - 1)
         IN  shorter \cup { Append(ls, l) : ls \in shorter, l \in ParserLines }

ParserTexts == { JoinLines(ls) : ls \in ParserLineSeqs(MaxParseLines) }

ParseInit ==
    /\ envText \in ParserTexts
    /\ parser = ParserStart(envText)
    /\ repo = << >>
    /\ pat = ""
    /\ sodiumReady = FALSE
    /\ pc = "parse"
    /\ net = << >>
    /\ keyInfo = << >>
    /\ secrets = << >>
    /\ entries = << >>
    /\ idx = 0
    /\ encryptedValue = << >>
    /\ encCalls = 0
    /\ setSecretCalls = << >>
    /\ results = << >>
    /\ failedSecrets = << >>
    /\ successSecrets = << >>
    /\ response = << >>

\* One iteration of the for loop.
ParseStep ==
    /\ ~ parser.done
    /\ parser.i <= Len(parser.lines)
    /\ LET raw == parser.lines[parser.i]
           after == ParseLine(parser.st, raw)
       IN  parser' = [parser EXCEPT
                        !.st = after,
                        !.i = parser.i + 1,
                        !.last = "line",
                        !.prev = parser.st,
                        !.raw = raw,
                        !.commits = parser.commits \o LineCommit(parser.st, raw),
                        !.openedAt = IF ~ parser.st.inValue /\ after.inValue
                                     THEN parser.i ELSE parser.openedAt]
    /\ UNCHANGED << repo, pat, envText, sodiumReady, pc, net, keyInfo, secrets,
                    entries, idx, encryptedValue, encCalls, setSecretCalls, results,
                    failedSecrets, successSecrets, response >>

\* The end of the loop, the commit of an unterminated value, and the return.
ParseEnd ==
    /\ ~ parser.done
    /\ parser.i > Len(parser.lines)
    /\ parser' = [parser EXCEPT
                    !.done = TRUE,
                    !.last = "end",
                    !.prev = parser.st,
                    !.commits = parser.commits \o FinishCommit(parser.st),
                    !.result = ParseFinish(parser.st)]
    /\ UNCHANGED << repo, pat, envText, sodiumReady, pc, net, keyInfo, secrets,
                    entries, idx, encryptedValue, encCalls, setSecretCalls, results,
                    failedSecrets, successSecrets, response >>

ParseNext ==
    \/ ParseStep
    \/ ParseEnd

ParseSpec == ParseInit /\ [][ParseNext]_vars


(***************************************************************************)
(* Vocabulary of the properties                                            *)
(***************************************************************************)
SeqToSet(q) == { q[i] : i \in 1..Len(q) }
NoDuplicates(q) == \A i, j \in 1..Len(q) : i # j => q[i] # q[j]

\* The key set of the parsed SecretMap.
SecretKeys == { secrets[i][1] : i \in 1..Len(secrets) }

\* The run went through the per-key loop and returned.
LoopFinished == pc = "done" /\ Len(keyInfo) = 1

\* Positions in net of the fetches of each kind.
PutIndices == { i \in 1..Len(net) : net[i].req.method = "PUT" }
KeyLookupIndices(scope) ==
    { i \in 1..Len(net) : /\ net[i].req.method = "GET"
                          /\ net[i].req.url.res = "public-key"
                          /\ net[i].req.url.scope = scope }
ProbeIndices ==
    { i \in 1..Len(net) : net[i].req.method = "GET" /\ net[i].req.url.res = "repo" }

\* The fetch at position i came back with this status.
AnsweredWith(i, status) == ~ net[i].threw /\ net[i].ans.status = status

\* The fetch at position i came back, and its body parsed, with this status.
ParsedWith(i, status) == AnsweredWith(i, status) /\ net[i].ans.json

\* The results entries of a key.
EntriesOf(key) == { j \in 1..Len(results) : results[j].key = key }

(***************************************************************************)
(* C1  When the per-key loop has finished, successSecrets and failedSecrets *)
(* have no duplicates, share no key, and together hold exactly the keys of *)
(* the parsed SecretMap.                                                   *)
(***************************************************************************)
C1_KeysPartitioned ==
    LoopFinished =>
        /\ NoDuplicates(successSecrets)
        /\ NoDuplicates(failedSecrets)
        /\ SeqToSet(successSecrets) \cap SeqToSet(failedSecrets) = {}
        /\ SeqToSet(successSecrets) \cup SeqToSet(failedSecrets) = SecretKeys
        /\ Len(successSecrets) + Len(failedSecrets) = Cardinality(SecretKeys)

\* A finished run of three keys with keys on both sides.
C1_Witness ==
    /\ LoopFinished
    /\ Cardinality(SecretKeys) = 3
    /\ successSecrets # << >>
    /\ failedSecrets # << >>

(***************************************************************************)
(* C2  A failure for one key (encryption throws, the PUT throws, or the    *)
(* PUT is answered with a status other than 201/204) puts that key in      *)
(* failedSecrets and stops nothing: when the run returns, setSecret has    *)
(* been invoked exactly once for every key of the SecretMap and every key  *)
(* has its results entry.  Three keys answered 201, 403, 201 give          *)
(* succeeded = first and third, failed = second, success = false.          *)
(***************************************************************************)
C2_FailureIsolated ==
    LoopFinished =>
        /\ NoDuplicates(setSecretCalls)
        /\ SeqToSet(setSecretCalls) = SecretKeys
        /\ Len(results) = Len(setSecretCalls)
        /\ \A j \in 1..Len(results) :
              /\ results[j].key = setSecretCalls[j]
              /\ ~ results[j].success => results[j].key \in SeqToSet(failedSecrets)
        /\ ( /\ Cardinality(PutIndices) = 3
             /\ Len(results) = 3
             /\ \A j \in 1..3 : "status" \in DOMAIN results[j]
             /\ results[1].status = 201
             /\ results[2].status = 403
             /\ results[3].status = 201 )
           => /\ successSecrets = << results[1].key, results[3].key >>
              /\ failedSecrets = << results[2].key >>
              /\ response[1].success = FALSE

\* The three-key run of the example has returned.
C2_Witness ==
    /\ LoopFinished
    /\ Len(results) = 3
    /\ \A j \in 1..3 : "status" \in DOMAIN results[j]
    /\ results[1].status = 201
    /\ results[2].status = 403
    /\ results[3].status = 201
    /\ Len(setSecretCalls) = 3


\* The keys of the results entries with the given success flag, in order.
RECURSIVE KeysWithSuccess(_, _)
KeysWithSuccess(res, flag) ==
    IF res = << >> THEN << >>
    ELSE (IF res[1].success = flag THEN << res[1].key >> ELSE << >>)
             \o KeysWithSuccess(Tail(res), flag)

(***************************************************************************)
(* C3  A run that completed the loop returns success = true exactly when   *)
(* no key failed; a successful run lists the written keys, a failed run    *)
(* lists the failed keys and none of the written ones.                     *)
(***************************************************************************)
C3_ReportShape ==
    LoopFinished =>
        LET r == response[1]
        IN  /\ r.success = (failedSecrets = << >>)
            /\ r.success = (\A j \in 1..Len(results) : results[j].success)
            /\ r.success => /\ r.variables = successSecrets
                            /\ r.variables = KeysWithSuccess(results, TRUE)
            /\ ~ r.success => /\ r.variables = failedSecrets
                              /\ r.variables = KeysWithSuccess(results, FALSE)

\* A failed run that had also written a key: the written key is not listed.
C3_Witness ==
    /\ LoopFinished
    /\ ~ response[1].success
    /\ successSecrets # << >>
    /\ SeqToSet(response[1].variables) \cap SeqToSet(successSecrets) = {}

(***************************************************************************)
(* C4  When the access probe is answered 404, the run ends there: no       *)
(* public-key GET and no secret PUT is ever issued, getPublicKey and       *)
(* setSecret are not invoked, and the result is success = false,           *)
(* variables = ["Repository access error"] with HTTP status 404.  Every    *)
(* other run-fatal failure is returned with status 500.                    *)
(***************************************************************************)
C4_ProbeNotFoundEndsRun ==
    /\ (\E i \in ProbeIndices : AnsweredWith(i, 404)) =>
          /\ Len(net) = 1
          /\ KeyLookupIndices("repos") = {}
          /\ KeyLookupIndices("orgs") = {}
          /\ PutIndices = {}
          /\ keyInfo = << >>
          /\ setSecretCalls = << >>
          /\ pc = "done"
          /\ response = << [status |-> 404, success |-> FALSE,
                            variables |-> << "Repository access error" >>] >>
    /\ (pc = "done" /\ keyInfo = << >> /\ ~ \E i \in ProbeIndices : AnsweredWith(i, 404)) =>
          /\ response[1].status = 500
          /\ response[1].success = FALSE
          /\ Len(response[1].variables) = 1

\* The probe was answered 404 and the run has returned.
C4_Witness ==
    /\ pc = "done"
    /\ \E i \in ProbeIndices : AnsweredWith(i, 404)
    /\ response[1].status = 404

(***************************************************************************)
(* C5  If a public-key lookup (resource-scoped or organization-scoped) is  *)
(* answered with a status that is neither a success nor 404, key discovery *)
(* fails: no key info is returned, and the run does not go on to           *)
(* setSecret for any key.                                                  *)
(***************************************************************************)
C5_LookupErrorFailsDiscovery ==
    (\E i \in KeyLookupIndices("repos") \cup KeyLookupIndices("orgs") :
        ~ net[i].threw /\ net[i].ans.status \notin {200, 404}) =>
          /\ keyInfo = << >>
          /\ setSecretCalls = << >>
          /\ pc = "done" => response[1].status = 500

(***************************************************************************)
(* C6  getPublicKey throws 'Neither repository nor organization public key *)
(* found' exactly when the resource-scoped lookup is answered 404 and the  *)
(* organization-scoped lookup is then answered 404 too; the                *)
(* organization-scoped lookup is issued only after a resource-scoped       *)
(* lookup that was answered 404.                                           *)
(***************************************************************************)
C6_KeyNotFoundIffBoth404 ==
    /\ pc = "done" =>
          ( ( /\ response[1].status = 500
              /\ response[1].variables =
                     << "Neither repository nor organization public key found" >> )
            <=> ( /\ \E i \in KeyLookupIndices("repos") : AnsweredWith(i, 404)
                  /\ \E i \in KeyLookupIndices("orgs") : AnsweredWith(i, 404) ) )
    /\ \A i \in KeyLookupIndices("orgs") :
          \E j \in KeyLookupIndices("repos") : j < i /\ AnsweredWith(j, 404)


(***************************************************************************)
(* C7  Scope fallback.  When the resource-scoped lookup is answered 404    *)
(* and the organization-scoped lookup succeeds, the key info has           *)
(* isOrg = true and every PUT of the run goes to                           *)
(* /orgs/{org}/actions/secrets/{key} with visibility = "all" in its body;  *)
(* when the resource-scoped lookup succeeds, isOrg = false and every PUT   *)
(* goes to /repos/{repo}/actions/secrets/{key} with no visibility field.   *)
(***************************************************************************)
C7_ScopeFallback ==
    /\ ( /\ \E i \in KeyLookupIndices("repos") : AnsweredWith(i, 404)
         /\ \E i \in KeyLookupIndices("orgs") : ParsedWith(i, 200) ) =>
          /\ Len(keyInfo) = 1
          /\ keyInfo[1].isOrg = TRUE
          /\ \A i \in PutIndices :
                /\ net[i].req.url.scope = "orgs"
                /\ net[i].req.url.owner = Split(repo, "/")[1]
                /\ net[i].req.url.res = "secret"
                /\ net[i].req.url.key \in SecretKeys
                /\ "visibility" \in DOMAIN net[i].req.body
                /\ net[i].req.body.visibility = "all"
    /\ (\E i \in KeyLookupIndices("repos") : ParsedWith(i, 200)) =>
          /\ Len(keyInfo) = 1
          /\ keyInfo[1].isOrg = FALSE
          /\ \A i \in PutIndices :
                /\ net[i].req.url.scope = "repos"
                /\ net[i].req.url.owner = repo
                /\ net[i].req.url.res = "secret"
                /\ net[i].req.url.key \in SecretKeys
                /\ "visibility" \notin DOMAIN net[i].req.body

\* A run that fell back to the organization key and has issued a PUT.
C7_Witness ==
    /\ \E i \in KeyLookupIndices("repos") : AnsweredWith(i, 404)
    /\ \E i \in KeyLookupIndices("orgs") : ParsedWith(i, 200)
    /\ PutIndices # {}
    /\ repo = << "o", "/", "r" >>

(***************************************************************************)
(* C8  For every PUT that was answered, the recorded outcome has           *)
(* success = true exactly when the status is 201 or 204 (a 200 is a        *)
(* failure), and it carries the answer's status, statusText and body (the  *)
(* text "Failed to read response body" when the body cannot be read); the  *)
(* key is filed under succeeded or failed accordingly.                     *)
(***************************************************************************)
C8_AcceptedIff201Or204 ==
    \A i \in PutIndices :
        ~ net[i].threw =>
            LET ans == net[i].ans
                key == net[i].req.url.key
            IN  /\ Cardinality(EntriesOf(key)) = 1
                /\ \A j \in EntriesOf(key) :
                      /\ DOMAIN results[j] =
                             {"key", "success", "status", "statusText", "response"}
                      /\ results[j].success = (ans.status \in {201, 204})
                      /\ results[j].status = ans.status
                      /\ results[j].statusText = ans.statusText
                      /\ ans.readable => results[j].response = ans.body
                      /\ ~ ans.readable =>
                             results[j].response = "Failed to read response body"
                /\ (key \in SeqToSet(successSecrets)) = (ans.status \in {201, 204})
                /\ (key \in SeqToSet(failedSecrets)) = (ans.status \notin {201, 204})

\* A PUT answered 200 was recorded as a failure.
C8_Witness ==
    \E i \in PutIndices :
        /\ AnsweredWith(i, 200)
        /\ \E j \in EntriesOf(net[i].req.url.key) : ~ results[j].success

(***************************************************************************)
(* C9 as stated: when the fetch of a PUT rejects, the key's recorded       *)
(* outcome has success = false, a status code, and the error message in    *)
(* its body field.                                                         *)
(***************************************************************************)
C9_Original ==
    \A i \in PutIndices :
        net[i].threw =>
            \E j \in EntriesOf(net[i].req.url.key) :
                /\ results[j].success = FALSE
                /\ "status" \in DOMAIN results[j]
                /\ "response" \in DOMAIN results[j]
                /\ results[j].response = "fetch failed"

(***************************************************************************)
(* C9 as amended: when the fetch of a PUT rejects, setSecret returns no    *)
(* outcome; the per-key catch files the key under failedSecrets and        *)
(* records for it exactly {key, success = false, error = the error         *)
(* message}, with no status and no body field.                             *)
(***************************************************************************)
C9_RejectedPutRecordedAsError ==
    \A i \in PutIndices :
        net[i].threw =>
            LET key == net[i].req.url.key
            IN  /\ Cardinality(EntriesOf(key)) = 1
                /\ \A j \in EntriesOf(key) :
                      /\ DOMAIN results[j] = {"key", "success", "error"}
                      /\ results[j].success = FALSE
                      /\ results[j].error = "fetch failed"
                /\ key \in SeqToSet(failedSecrets)
                /\ key \notin SeqToSet(successSecrets)

\* The fetch of a PUT has rejected.
C9_Witness == \E i \in PutIndices : net[i].threw

(***************************************************************************)
(* C10  Every PUT carries as encrypted_value a box sealed for the public   *)
(* key that the run's one key discovery returned, holding that key's       *)
(* parsed value, and as key_id the key_id of the same discovery; its body  *)
(* has no other field than encrypted_value, key_id and visibility, and no  *)
(* GET carries a body, so no parsed value leaves unsealed; the key info    *)
(* stays what discovery returned.                                          *)
(***************************************************************************)
C10_SealedUnderDiscoveredKey ==
    /\ Cardinality(KeyLookupIndices("repos")) <= 1
    /\ Cardinality(KeyLookupIndices("orgs")) <= 1
    /\ Len(keyInfo) = 1 =>
          \E d \in KeyLookupIndices("repos") \cup KeyLookupIndices("orgs") :
              /\ \A e \in KeyLookupIndices("repos") \cup KeyLookupIndices("orgs") : e <= d
              /\ ~ net[d].threw
              /\ keyInfo[1].publicKey = net[d].ans.key
              /\ keyInfo[1].keyId = net[d].ans.key_id
              /\ keyInfo[1].isOrg = (net[d].req.url.scope = "orgs")
              /\ \A i \in PutIndices :
                    LET body == net[i].req.body
                    IN  /\ d < i
                        /\ DOMAIN body \subseteq {"encrypted_value", "key_id", "visibility"}
                        /\ body.key_id = net[d].ans.key_id
                        /\ body.encrypted_value.sealedFor = net[d].ans.key
                        /\ body.encrypted_value.sealedFor \in ValidPublicKeys
                        /\ \E j \in 1..Len(secrets) :
                              /\ secrets[j][1] = net[i].req.url.key
                              /\ body.encrypted_value.plaintext = secrets[j][2]
    /\ \A i \in 1..Len(net) :
          /\ net[i].req.method = "GET" => DOMAIN net[i].req = {"method", "url", "auth"}
          /\ net[i].req.method = "PUT" => DOMAIN net[i].req = {"method", "url", "auth", "body"}
          /\ net[i].req.auth = pat
          /\ net[i].req.url.owner \in {repo, Split(repo, "/")[1]}
          /\ net[i].req.url.key \in SecretKeys \cup {<< >>}
    /\ PutIndices # {} => Len(keyInfo) = 1

\* Two PUTs of one run, both sealed for the organization key.
C10_Witness ==
    /\ Cardinality(PutIndices) >= 2
    /\ \A i \in PutIndices : net[i].req.body.encrypted_value.sealedFor = "pkOrg"


(***************************************************************************)
(* C11  When both public-key lookups are answered 404, the run is fatal:   *)
(* no key info is returned, setSecret and the sealing are never called,    *)
(* no PUT is issued, nothing is recorded as succeeded or failed, and the   *)
(* result is success = false with one reason string in variables.          *)
(***************************************************************************)
C11_DiscoveryFailureIsFatal ==
    ( /\ \E i \in KeyLookupIndices("repos") : AnsweredWith(i, 404)
      /\ \E i \in KeyLookupIndices("orgs") : AnsweredWith(i, 404) ) =>
          /\ pc = "done"
          /\ keyInfo = << >>
          /\ setSecretCalls = << >>
          /\ encCalls = 0
          /\ PutIndices = {}
          /\ results = << >>
          /\ successSecrets = << >>
          /\ failedSecrets = << >>
          /\ Len(response) = 1
          /\ response[1].success = FALSE
          /\ response[1].status = 500
          /\ Len(response[1].variables) = 1

\* Both lookups were answered 404 for a run that had secrets to write.
C11_Witness ==
    /\ \E i \in KeyLookupIndices("repos") : AnsweredWith(i, 404)
    /\ \E i \in KeyLookupIndices("orgs") : ParsedWith(i, 404)
    /\ parseEnvContent(envText) # << >>
    /\ response[1].variables = << "Neither repository nor organization public key found" >>


\* Positions in the parser's write log of the writes of a key.
CommitsOf(key) ==
    { c \in 1..Len(parser.commits) : parser.commits[c].key = key }

\* The last write of a key.
LastCommitOf(key) ==
    CHOOSE c \in CommitsOf(key) : \A d \in CommitsOf(key) : d <= c

(***************************************************************************)
(* C12  parseEnvContent is last-write-wins: a key written more than once   *)
(* (by a single-line value, a closed multi-line value or the write at the  *)
(* end of input, in any mix) is in the returned mapping exactly once, with *)
(* the value of its last write in input order; the mapping holds the       *)
(* written keys and no other.                                              *)
(***************************************************************************)
C12_LastWriteWins ==
    parser.done =>
        /\ \A c \in 1..Len(parser.commits) :
              LET key == parser.commits[c].key
                  at == { j \in 1..Len(parser.result) : parser.result[j][1] = key }
              IN  /\ Cardinality(at) = 1
                  /\ \A j \in at :
                        parser.result[j][2] = parser.commits[LastCommitOf(key)].value
        /\ \A j \in 1..Len(parser.result) : CommitsOf(parser.result[j][1]) # {}

\* A key written twice, in two different ways, with two different values.
C12_Witness ==
    /\ parser.done
    /\ \E c, d \in 1..Len(parser.commits) :
          /\ c < d
          /\ parser.commits[c].key = parser.commits[d].key
          /\ parser.commits[c].kind # parser.commits[d].kind
          /\ parser.commits[c].value # parser.commits[d].value
          /\ d = LastCommitOf(parser.commits[d].key)


\* Position of a key in the parsed mapping, that is the rank of its first write.
PositionOf(key) == CHOOSE j \in 1..Len(secrets) : secrets[j][1] = key

\* The key a PUT is for, and the number of PUTs up to and including it.
PutKey(i) == net[i].req.url.key
PutRank(i) == Cardinality({ h \in PutIndices : h <= i })

\* One request at a time, each key sealed before its own PUT and after the
\* PUT of the key before it: the n-th PUT carries the n-th box sealed.
SealedThenPut ==
    /\ \A i \in PutIndices : net[i].req.body.encrypted_value.eph = PutRank(i)
    /\ encCalls = Cardinality(PutIndices) + (IF pc = "put" THEN 1 ELSE 0)

(***************************************************************************)
(* C13 as stated: the PUTs of a run are issued in the order in which the   *)
(* parser first wrote the keys, keys made only of digits included, one at  *)
(* a time and each after its own sealing.                                  *)
(***************************************************************************)
C13_Original ==
    /\ \A i, h \in PutIndices :
          i < h => PositionOf(PutKey(i)) < PositionOf(PutKey(h))
    /\ SealedThenPut

(***************************************************************************)
(* C13 as amended: the PUTs of a run are issued one at a time, each after  *)
(* its own sealing; keys that are not canonical array indices are          *)
(* processed in the order in which the parser first wrote them, and a key  *)
(* that is a canonical array index (digits only, no leading zero) is       *)
(* processed before every key that is not, wherever the parser wrote it.   *)
(***************************************************************************)
C13_EntriesOrder ==
    /\ \A i, h \in PutIndices :
          i < h =>
              /\ ~ IsArrayIndex(PutKey(i)) => ~ IsArrayIndex(PutKey(h))
              /\ (~ IsArrayIndex(PutKey(i)) /\ ~ IsArrayIndex(PutKey(h))) =>
                     PositionOf(PutKey(i)) < PositionOf(PutKey(h))
    /\ SealedThenPut

\* Three PUTs: the digit key first though it was written second, then the two
\* other keys in the order the parser wrote them.
C13_Witness ==
    /\ Cardinality(PutIndices) = 3
    /\ \E i, h, g \in PutIndices :
          /\ i < h /\ h < g
          /\ IsArrayIndex(PutKey(i))
          /\ PositionOf(PutKey(i)) = 2
          /\ PositionOf(PutKey(h)) = 1
          /\ PositionOf(PutKey(g)) = 3


\* The value a mapping holds for a key it has.
ValueIn(rec, key) == rec[CHOOSE j \in 1..Len(rec) : rec[j][1] = key][2]

\* The last step read a line and was not skipped as blank or comment.
ReadLine ==
    /\ parser.last = "line"
    /\ Trim(parser.raw) # << >>
    /\ Trim(parser.raw)[1] # "#"

\* The last step read, in ScanningKey, a line of the form KEY=VALUE.
ScannedKeyValue ==
    /\ ReadLine
    /\ ~ parser.prev.inValue
    /\ LineMatches(Trim(parser.raw))

\* Key and value of the line the last step read.
ReadKey == MatchKey(Trim(parser.raw))
ReadValue == MatchValue(Trim(parser.raw))

\* A value with a quote character at each end.
Wrapped(v) == Len(v) >= 2 /\ v[1] \in {"\"", "'"} /\ v[Len(v)] \in {"\"", "'"}

\* The last step wrote the line's key with the value stripped of one quote
\* at each end, and the parser is in ScanningKey.
CommittedStripped ==
    /\ ~ parser.st.inValue
    /\ parser.st.currentKey = << >>
    /\ HasKey(parser.st.result, ReadKey)
    /\ ValueIn(parser.st.result, ReadKey) = SubSeq(ReadValue, 2, Len(ReadValue) - 1)
    /\ Len(parser.commits) >= 1
    /\ parser.commits[Len(parser.commits)].key = ReadKey

(***************************************************************************)
(* C14 as stated: a KEY=VALUE line read in ScanningKey whose value has a   *)
(* quote character at each end, matching or not, "value' included, is      *)
(* committed at once with one quote stripped at each end and leaves the    *)
(* parser in ScanningKey.                                                  *)
(***************************************************************************)
C14_Original ==
    (ScannedKeyValue /\ Wrapped(ReadValue)) => CommittedStripped

(***************************************************************************)
(* C14 as amended: the same, except for a value that begins with a double  *)
(* quote and ends with a single quote (such as "value'): that value is not *)
(* stripped or committed, it opens a multi-line value (the key is          *)
(* remembered, the leading quote stripped, the parser goes to              *)
(* AccumulatingMultilineValue).                                            *)
(***************************************************************************)
C14_WrappedValueStripped ==
    (ScannedKeyValue /\ Wrapped(ReadValue)) =>
        IF ReadValue[1] = "\"" /\ ReadValue[Len(ReadValue)] = "'"
        THEN /\ parser.st.inValue
             /\ parser.st.currentKey = ReadKey
             /\ parser.st.value = Tail(ReadValue)
             /\ parser.st.result = parser.prev.result
        ELSE CommittedStripped

\* The line B='v" was read in ScanningKey and B now holds v.
C14_Witness ==
    /\ ScannedKeyValue
    /\ ReadValue = << "'", "v", "\"" >>
    /\ ValueIn(parser.st.result, ReadKey) = << "v" >>


\* The input ended while the parser was in AccumulatingMultilineValue.
EndedInValue == parser.done /\ parser.last = "end" /\ parser.prev.inValue

\* The line that opened the value being accumulated.
OpeningLine == Trim(parser.lines[parser.openedAt])

(***************************************************************************)
(* C15  When the input ends while parseEnvContent is in                    *)
(* AccumulatingMultilineValue, the returned mapping holds the remembered   *)
(* key (the key of the line that opened the value) with the buffered value *)
(* exactly as accumulated: it begins with the opening line's value without *)
(* its leading quote, and no closing quote was needed.                     *)
(***************************************************************************)
C15_UnterminatedValueCommitted ==
    EndedInValue =>
        /\ parser.openedAt \in 1..Len(parser.lines)
        /\ parser.prev.currentKey = MatchKey(OpeningLine)
        /\ HasKey(parser.result, parser.prev.currentKey)
        /\ ValueIn(parser.result, parser.prev.currentKey) = parser.prev.value
        /\ StartsWith(parser.prev.value, Tail(MatchValue(OpeningLine)))
        /\ MatchValue(OpeningLine)[1] = "\""
        /\ \A j \in 1..Len(parser.result) :
              parser.result[j][1] # parser.prev.currentKey =>
                  parser.result[j] \in SeqToSet(parser.prev.result)

\* The input ended two lines after an opening line that was never closed.
C15_Witness ==
    /\ EndedInValue
    /\ parser.openedAt = 1
    /\ Len(parser.lines) = 3
    /\ Len(parser.prev.value) > Len(Tail(MatchValue(OpeningLine)))


\* A value that ends with a closing double quote that is not escaped.
ClosedUnescaped(v) ==
    Len(v) >= 2 /\ v[Len(v)] = "\"" /\ v[Len(v) - 1] # "\\"

(***************************************************************************)
(* C16  In ScanningKey, a KEY=VALUE line whose value begins with a double  *)
(* quote and does not end with an unescaped closing double quote (a value  *)
(* ending with \" is not closed) moves the parser to                       *)
(* AccumulatingMultilineValue, with the key remembered, the leading quote  *)
(* stripped, and nothing committed.                                        *)
(***************************************************************************)
C16_EscapedQuoteOpensMultiline ==
    (ScannedKeyValue /\ StartsWith(ReadValue, << "\"" >>) /\ ~ ClosedUnescaped(ReadValue)) =>
        /\ parser.st.inValue
        /\ parser.st.currentKey = ReadKey
        /\ parser.st.value = Tail(ReadValue)
        /\ parser.st.result = parser.prev.result


(***************************************************************************)
(* C17  In AccumulatingMultilineValue every physical line read, blank      *)
(* lines and lines starting with # included, is appended as read to the    *)
(* buffered value after a newline; only a line ending with an unescaped    *)
(* double quote ends the state, and it is appended without that quote      *)
(* before the key is committed with the buffer.                            *)
(***************************************************************************)
C17_EveryLineAppendedAsRead ==
    ( /\ parser.last = "line"
      /\ parser.prev.inValue
      \* the empty piece after a final newline is not counted as a line
      /\ ~ (parser.raw = << >> /\ parser.i > Len(parser.lines)) ) =>
        IF EndsMultiline(parser.raw)
        THEN /\ ~ parser.st.inValue
             /\ HasKey(parser.st.result, parser.prev.currentKey)
             /\ ValueIn(parser.st.result, parser.prev.currentKey) =
                    parser.prev.value \o << "\n" >>
                        \o SubSeq(parser.raw, 1, Len(parser.raw) - 1)
        ELSE /\ parser.st.inValue
             /\ parser.st.currentKey = parser.prev.currentKey
             /\ parser.st.value = parser.prev.value \o << "\n" >> \o parser.raw


\* The lines of the run's env text, and the parser's locals before and after
\* the i-th of them.
TextLines == Split(envText, "\n")
LocalsBefore(i) == ParseLines(ParserInit, SubSeq(TextLines, 1, i - 1))
LocalsAfter(i) == ParseLines(ParserInit, SubSeq(TextLines, 1, i))

\* The i-th line has the form KEY=VALUE (and is not skipped as a comment).
IsKeyValueLine(i) ==
    LET line == Trim(TextLines[i])
    IN  line # << >> /\ line[1] # "#" /\ LineMatches(line)

\* The i-th line is a KEY=VALUE line read in AccumulatingMultilineValue.
Absorbed(i) == IsKeyValueLine(i) /\ LocalsBefore(i).inValue

\* The key of an absorbed line stands on no line read in ScanningKey.
OnlyAbsorbed(key) ==
    \A j \in 1..Len(TextLines) :
        (IsKeyValueLine(j) /\ MatchKey(Trim(TextLines[j])) = key) => Absorbed(j)

KeysOf(rec) == { rec[j][1] : j \in 1..Len(rec) }

\* parseEnvContent has just returned into POST: getPublicKey has returned and
\* no key of the loop has been worked on yet.
JustParsed == Len(keyInfo) = 1 /\ results = << >> /\ pc \in {"encrypt", "done"}

\* The keys of the PUT requests issued so far.
PutKeys == { PutKey(p) : p \in PutIndices }

(***************************************************************************)
(* C18  While parseEnvContent is in AccumulatingMultilineValue no new key  *)
(* is started: a KEY=VALUE line is appended to the buffered value of the   *)
(* earlier key, and closes that value if it ends with an unescaped double  *)
(* quote.  A key that stands only on such lines is absent from the         *)
(* returned mapping, setSecret is never called for it, and the run         *)
(* reports it neither as succeeded nor as failed.                          *)
(***************************************************************************)
C18_KeysInsideValueAbsorbed ==
    /\ JustParsed =>
        /\ secrets = parseEnvContent(envText)
        /\ \A i \in 1..Len(TextLines) :
            Absorbed(i) =>
                LET line == Trim(TextLines[i])
                    before == LocalsBefore(i)
                    after == LocalsAfter(i)
                    key == MatchKey(line)
                IN  /\ KeysOf(after.result) \subseteq
                           KeysOf(before.result) \cup {before.currentKey}
                    /\ IF ClosedUnescaped(line)
                       THEN /\ ~ after.inValue
                            /\ ValueIn(after.result, before.currentKey) =
                                   before.value \o << "\n" >>
                                       \o SubSeq(line, 1, Len(line) - 1)
                       ELSE /\ after.inValue
                            /\ after.currentKey = before.currentKey
                            /\ after.value = before.value \o << "\n" >> \o line
                            /\ after.result = before.result
                    /\ OnlyAbsorbed(key) => key \notin SecretKeys
    \* the run works on keys of the returned mapping only
    /\ SeqToSet(setSecretCalls) \subseteq SecretKeys
    /\ SeqToSet(successSecrets) \subseteq SecretKeys
    /\ SeqToSet(failedSecrets) \subseteq SecretKeys
    /\ PutKeys \subseteq SecretKeys

\* A run whose text has a KEY=VALUE line that closed the value of an earlier
\* key, and that reported the earlier key and a later one but not that line's.
C18_Witness ==
    /\ LoopFinished
    /\ Cardinality(SecretKeys) = 2
    /\ successSecrets # << >>
    /\ \E i \in 1..Len(TextLines) :
          /\ Absorbed(i)
          /\ ClosedUnescaped(Trim(TextLines[i]))
          /\ OnlyAbsorbed(MatchKey(Trim(TextLines[i])))
          /\ i < Len(TextLines)


\* The run issued its access probe and the probe was answered.
ProbeAnswered == Len(net) >= 1 /\ 1 \in ProbeIndices /\ ~ net[1].threw

(***************************************************************************)
(* C19  Only a probe status of exactly 404 ends the run.  After any other  *)
(* answered probe status (403, 500, and 200 alike) POST goes on to the     *)
(* resource-scoped public-key lookup, never returns the 404 "Repository    *)
(* access error" response, and, once getPublicKey has returned, parses the *)
(* env text and calls setSecret for the first entry.                       *)
(***************************************************************************)
C19_OnlyProbe404Aborts ==
    ProbeAnswered =>
        /\ (pc = "done" /\ Len(net) = 1) <=> AnsweredWith(1, 404)
        /\ ~ AnsweredWith(1, 404) =>
              /\ pc = "repoKey" <=> Len(net) = 1
              /\ Len(net) >= 2 => 2 \in KeyLookupIndices("repos")
              /\ pc = "done" => response[1] # AccessErrorResponse
              /\ Len(keyInfo) = 1 =>
                    /\ JustParsed => secrets = parseEnvContent(envText)
                    /\ entries # << >> => setSecretCalls[1] = entries[1][1]
                    /\ pc = "done" => Len(setSecretCalls) = Len(entries)

\* The probe was answered 403 or 500 and a secret was stored all the same.
C19_Witness ==
    /\ ProbeAnswered
    /\ net[1].ans.status \in {403, 500}
    /\ LoopFinished
    /\ \E i \in PutIndices : AnsweredWith(i, 201)
    /\ successSecrets # << >>

\* The text of the run holds no secret: the mapping parseEnvContent returns
\* for it (the variable secrets, once POST has parsed the text) is empty.
NoSecrets ==
    IF Len(keyInfo) = 1 THEN secrets = << >> ELSE parseEnvContent(envText) = << >>

(***************************************************************************)
(* C20  A run whose env text is not empty but parses to an empty SecretMap *)
(* still issues the access probe and the public-key lookup; it issues no   *)
(* PUT, calls neither encryptValue nor setSecret, and, when the probe is   *)
(* not answered 404 and discovery returns, responds with status 200,       *)
(* success = true and an empty variables list.                             *)
(***************************************************************************)
C20_NoSecretsStillSucceeds ==
    /\ JustParsed => secrets = parseEnvContent(envText)
    /\ ( /\ repo # << >> /\ pat # "" /\ envText # << >>
         /\ NoSecrets ) =>
            /\ PutIndices = {}
            /\ encCalls = 0
            /\ setSecretCalls = << >>
            /\ results = << >>
            /\ pc \notin {"encrypt", "put"}
            /\ pc # "formData" => (pc = "probe" <=> net = << >>)
            /\ net # << >> => 1 \in ProbeIndices
            /\ (ProbeAnswered /\ ~ AnsweredWith(1, 404)) =>
                  (pc = "repoKey" \/ 2 \in KeyLookupIndices("repos"))
            /\ Len(keyInfo) = 1 =>
                  /\ pc = "done"
                  /\ response = << [status |-> 200, success |-> TRUE,
                                    variables |-> << >>] >>

\* A text of one comment line: probed, key discovered, nothing stored, success.
C20_Witness ==
    /\ pc = "done"
    /\ Len(keyInfo) = 1
    /\ envText # << >>
    /\ secrets = << >>
    /\ parseEnvContent(envText) = << >>
    /\ ProbeAnswered
    /\ PutIndices = {}
    /\ response[1].status = 200
    /\ response[1].success

====
